---- MODULE Spec2Model ----
(***************************************************************************)
(* Authentication and session lifecycle of the StayHub backend: the        *)
(* Session Manager (AuthService), the Token Codec (jsonwebtoken as it is   *)
(* used by the service), the Authorization Gate (auth, roleMiddleware),    *)
(* the controllers in front of them, and the two stores (User,             *)
(* TokenBlacklist).                                                        *)
(*                                                                         *)
(* The repository holds the service, the controllers and the middleware    *)
(* twice: a TypeScript set and a JavaScript set.  The variable build says  *)
(* which set is running; it is chosen in Init and never changes.           *)
(*                                                                         *)
(* Time is counted in ticks.  jsonwebtoken stamps iat in whole seconds, so *)
(* two tokens signed for the same payload with the same secret inside one  *)
(* tick are the same string; a token is modelled by the record of what     *)
(* determines that string.                                                 *)
(***************************************************************************)
EXTENDS Integers, FiniteSets, Sequences, TLC

\* ------------------------------------------------------------------ bounds
MaxTime == 3
MaxTokens == 4

\* --------------------------------------------------- lifetimes, in ticks
\* JWT_EXPIRES_IN (fifteen minutes in the deployment the controllers assume)
AccessTtl == 1
\* expiresIn: '1h' of the verification and the reset token
HourTtl == 2
\* JWT_REFRESH_EXPIRES_IN || '7d'
RefreshTtl == 3

\* password.length < 8 of the controllers
MinLength == 8
\* the longest password written out character by character
MaxTyped == 8

\* the largest totalRooms a request names
MaxRooms == 2

\* ------------------------------------------------------------ value sets
Builds == {"ts", "js"}
Emails == {"ann@x.com", "bob@x.com"}
\* the identity that registers; the other one stays unknown to the store
Registrants == {"ann@x.com"}
Passwords == {"Abcd123!", "Wxyz789#"}
Roles == {"renter", "landlord", "technician", "admin"}
\* the requests to register that can be in flight at once
Procs == {"p1", "p2"}

\* _id of the document created for an email (accounts are never deleted here)
IdOf(email) == IF email = "ann@x.com" THEN "u1" ELSE "u2"

NoUser == [id |-> "-", password |-> <<>>, role |-> "-", isVerified |-> FALSE, isBanned |-> FALSE]
NoToken == [sub |-> "-", role |-> "undefined", iat |-> 0, exp |-> 0, key |-> "absent"]
\* a well-formed token signed with a key the server does not know
Forged == [sub |-> "u1", role |-> "admin", iat |-> 0, exp |-> MaxTime + 2, key |-> "forged"]
\* a string that is not a JWT at all
Malformed == [sub |-> "-", role |-> "undefined", iat |-> 0, exp |-> 0, key |-> "malformed"]
NoCaller == [id |-> "-", role |-> "undefined"]
NoReq == [scheme |-> "none", htok |-> NoToken, ctok |-> NoToken]
\* what auth decided, before any request
NoGate == [ok |-> FALSE, gate |-> "-", status |-> 0, lookup |-> FALSE, token |-> NoToken, caller |-> NoCaller]
\* a process with no request in flight; in flight is a register between its
\* pre-check and its save, or a logout between auth and TokenBlacklist.create
Idle == [pc |-> "idle", email |-> "-", password |-> "-", flaw |-> "none", req |-> NoReq, gate |-> NoGate]

\* the _ids of Building and Room documents
BuildingIds == {"b1"}
RoomIds == {"r1", "r2"}
NoBuilding == [totalRooms |-> 0, availableRooms |-> 0, stored |-> FALSE]
\* a value that is undefined or null in JavaScript
Undefined == "undefined"
\* an argument of a call: one that was passed, one that was left out
Argument(x) == [defined |-> TRUE, value |-> x]
NoArgument == [defined |-> FALSE, value |-> Undefined]
NoRoom == [buildingId |-> "-", status |-> "-", currentTenant |-> Undefined, stored |-> FALSE]

VARIABLES build, now, users, blacklist, issued, reg, last, buildings, rooms
vars == <<build, now, users, blacklist, issued, reg, last, buildings, rooms>>

\* ------------------------------------------------------------ Token Codec
\* jwt.sign({ userId }, secret, { expiresIn })
sign(userId, key, ttl, t) == [sub |-> userId, role |-> "undefined", iat |-> t, exp |-> t + ttl, key |-> key]

\* jwt.verify(token, secret): signature first, then exp (now >= exp is expired)
verify(tok, key, t) ==
  IF tok.key # key THEN "JsonWebTokenError"
  ELSE IF t >= tok.exp THEN "TokenExpiredError"
  ELSE "ok"

generateToken(userId, t) == sign(userId, "access", AccessTtl, t)
\* a generateRefreshToken that signs with JWT_SECRET
generateRefreshToken_accessSecret(userId, t) == sign(userId, "access", RefreshTtl, t)
generateRefreshToken(userId, t) == sign(userId, "refresh", RefreshTtl, t)
\* jwt.sign({ userId: newUser._id }, process.env.JWT_SECRET, { expiresIn: '1h' })
hourToken(userId, t) == sign(userId, "access", HourTtl, t)

\* bcrypt.hash / bcrypt.compare
hash(password) == <<"bcrypt", password>>
\* a compare that only looks whether a hash is stored
compare_anyHash(password, hashed) == hashed # <<>>
compare(password, hashed) == hashed = hash(password)

\* ------------------------------------------------------------ the stores
\* User.findOne({ email }): no document when the value is not a stored email
findOne(email) == IF email \in Emails THEN users[email] ELSE NoUser
findById(id) ==
  IF \E e \in Emails : users[e] # NoUser /\ users[e].id = id
  THEN users[CHOOSE e \in Emails : users[e] # NoUser /\ users[e].id = id]
  ELSE NoUser
EmailOfId(id) == CHOOSE e \in Emails : IdOf(e) = id

\* a document as a query returns it: password is select: false in the schema,
\* so the field is absent unless the query asks for '+password'
selected(user) == IF user = NoUser THEN NoUser ELSE [user EXCEPT !.password = <<>>]

\* a formatUserResponse that returns the document as it is
formatUserResponse_asIs(user) == user

\* AuthService.formatUserResponse: toObject(), then delete userObj.password
formatUserResponse(user) == IF user = NoUser THEN NoUser ELSE [user EXCEPT !.password = <<>>]

\* TokenBlacklist.findOne({ token })
isTokenBlacklisted(tok) == \E r \in blacklist : r.token = tok

\* ------------------------------------------------------------- responses
NoErr == [name |-> "-", code |-> "-", message |-> "-"]
Err(name, code, message) == [name |-> name, code |-> code, message |-> message]

\* what is kept of the latest request and its response: the operation, the
\* identity or token it was about, the gate's verdict and the token the gate
\* looked at, the status, the error thrown, the message and the development
\* detail of the response, the tokens returned and the token written to the
\* TokenBlacklist, the account object in the response; of a password request, the oldPassword and the newPassword
\* of its body; of a building or room request, the _id it names (target) and
\* its body
Base ==
  [op |-> "init", email |-> "-", tokIn |-> NoToken, roles |-> {}, gate |-> "-",
   oldPassword |-> "-", newPassword |-> "-", flaw |-> "none", user |-> NoUser,
   verified |-> NoToken, status |-> 0, err |-> NoErr, message |-> "-", detail |-> "-",
   token |-> NoToken, refreshToken |-> NoToken, wrote |-> NoToken,
   target |-> "-", body |-> <<>>]

\* handleError of the controllers: the errorMap lookup by error.code
KnownCodes ==
  [MISSING_FIELDS |-> 400, INVALID_EMAIL |-> 400, INVALID_PASSWORD |-> 400,
   INVALID_TOKEN |-> 400, INVALID_REFRESH_TOKEN |-> 400, INVALID_PHONE |-> 400,
   EMAIL_NOT_FOUND |-> 404, TOKEN_EXPIRED |-> 401, UNAUTHORIZED |-> 401,
   INVALID_CREDENTIALS |-> 401, USER_NOT_FOUND |-> 404, USER_EXISTS |-> 409,
   EMAIL_VERIFIED |-> 400, RATE_LIMIT_EXCEEDED |-> 429]

handleError(b, env, e) ==
  IF e.code \in DOMAIN KnownCodes
  THEN [status |-> KnownCodes[e.code],
        message |-> IF b = "ts" /\ e.code = "INVALID_CREDENTIALS"
                    THEN "Invalid email or password" ELSE e.message,
        detail |-> "-"]
  ELSE [status |-> 500, message |-> "Internal server error",
        detail |-> IF env = "development" THEN e.message ELSE "-"]

\* the response to a failed request; detail is the error field that the
\* DEFAULT entry adds when NODE_ENV is development
Failed(r, b, e) ==
  LET h == handleError(b, "development", e)
  IN [r EXCEPT !.status = h.status, !.err = e, !.message = h.message, !.detail = h.detail]

\* ------------------------------------------------------------------ login
InvalidCredentials == Err("object", "INVALID_CREDENTIALS", "Invalid email or password")

\* login of auth.service.ts telling an unknown identity apart
login_ts_userNotFound(email, password) ==
  LET user == findOne(email)
  IN IF user = NoUser THEN Err("object", "USER_NOT_FOUND", "User not found")
     ELSE IF user.password = <<>> THEN InvalidCredentials
     ELSE IF ~compare(password, user.password) THEN InvalidCredentials
     ELSE NoErr

\* AuthService.login of auth.service.ts: the error it throws, NoErr on success
login_ts(email, password) ==
  LET user == findOne(email)
  IN IF user = NoUser THEN InvalidCredentials
     ELSE IF user.password = <<>> THEN InvalidCredentials
     ELSE IF ~compare(password, user.password) THEN InvalidCredentials
     ELSE NoErr

\* AuthService.login of auth.service.js
login_js(email, password) ==
  LET user == findOne(email)
  IN IF user = NoUser THEN Err("Error", "-", "Invalid credentials")
     ELSE IF user.isBanned THEN Err("Error", "-", "Account has been banned")
     ELSE IF ~compare(password, user.password) THEN Err("Error", "-", "Invalid credentials")
     ELSE NoErr

\* the controller around it: auth.controller.ts remaps an error without a code
loginError(b, email, password) ==
  IF b = "ts"
  THEN LET e == login_ts(email, password)
       IN IF e # NoErr /\ e.code = "-" THEN InvalidCredentials ELSE e
  ELSE login_js(email, password)

\* a login that ends the account's earlier sessions: it blacklists every
\* token issued to the account before
Login_singleSession(email, password) ==
  LET e == loginError(build, email, password)
      r == [Base EXCEPT !.op = "login", !.email = email]
      id == findOne(email).id
  IN /\ e = NoErr => Cardinality(issued) < MaxTokens
     /\ IF e = NoErr
        THEN /\ issued' = issued \cup {generateToken(id, now), generateRefreshToken(id, now)}
             /\ blacklist' = blacklist \cup {[token |-> tok, expiresAt |-> tok.exp] :
                                                tok \in {x \in issued : x.sub = id}}
             /\ last' = [r EXCEPT !.status = 200, !.message = "Login successful",
                                  !.user = formatUserResponse(findOne(email)),
                                  !.token = generateToken(id, now),
                                  !.refreshToken = generateRefreshToken(id, now)]
        ELSE /\ issued' = issued
             /\ blacklist' = blacklist
             /\ last' = Failed(r, build, e)
     /\ UNCHANGED <<build, buildings, rooms, now, users, reg>>

\* POST /api/auth/login
Login(email, password) ==
  LET e == loginError(build, email, password)
      r == [Base EXCEPT !.op = "login", !.email = email]
      id == findOne(email).id
  IN /\ e = NoErr => Cardinality(issued) < MaxTokens
     /\ IF e = NoErr
        THEN /\ issued' = issued \cup {generateToken(id, now), generateRefreshToken(id, now)}
             /\ last' = [r EXCEPT !.status = 200, !.message = "Login successful",
                                  !.user = formatUserResponse(findOne(email)),
                                  !.token = generateToken(id, now),
                                  !.refreshToken = generateRefreshToken(id, now)]
        ELSE /\ issued' = issued
             /\ last' = Failed(r, build, e)
     /\ UNCHANGED <<build, buildings, rooms, now, users, blacklist, reg>>

\* --------------------------------------------------------------- register
\* what can be wrong with the body of a register request: a required field
\* is missing, address has no street, the email or the phone is malformed,
\* the password is weak
Flaws == {"none", "name", "street", "email", "phone", "password"}

\* validatePassword of the validation module, which the JavaScript controller
\* imports; its definition is not in the repository's sources, so it is taken
\* to be the check that the controller's error message describes
validatePassword(flaw) == flaw # "password"

\* the controller's inline test of auth.controller.ts: length, upper case,
\* lower case, digit, special character
strongPassword(flaw) == flaw # "password"

\* register without the password check
registerValidation_noPassword(b, flaw) ==
  IF flaw = "name" THEN Err("object", "MISSING_FIELDS", "All fields are required")
  ELSE IF flaw = "email" THEN Err("object", "INVALID_EMAIL", "Invalid email format")
  ELSE IF flaw = "phone" THEN Err("object", "INVALID_PHONE", "Invalid phone format")
  ELSE IF flaw = "street"
  THEN Err("Error", "-", "Missing required address fields: street, ward, district, city")
  ELSE NoErr

\* the checks of register, those of the controller and then those of
\* AuthService.register, all of them before User.findOne: the error thrown,
\* NoErr when the body passes
registerValidation(b, flaw) ==
  IF flaw = "name" THEN Err("object", "MISSING_FIELDS", "All fields are required")
  ELSE IF flaw = "email" THEN Err("object", "INVALID_EMAIL", "Invalid email format")
  ELSE IF flaw = "phone" THEN Err("object", "INVALID_PHONE", "Invalid phone format")
  ELSE IF ~(IF b = "ts" THEN strongPassword(flaw) ELSE validatePassword(flaw))
  THEN Err("object", "INVALID_PASSWORD",
           "Password must be at least 8 characters long and contain uppercase, lowercase, number and special character")
  ELSE IF flaw = "street"
  THEN Err("Error", "-", "Missing required address fields: street, ward, district, city")
  ELSE NoErr

\* register up to "Checking for existing user": the validation, then the
\* pre-check User.findOne({ email }); the hashing that follows awaits, so
\* another request can run before the save
RegisterCheck(p, email, password, flaw) ==
  LET r == [Base EXCEPT !.op = "register", !.email = email, !.flaw = flaw]
      invalid == registerValidation(build, flaw)
  IN /\ reg[p].pc = "idle"
     /\ Cardinality(issued) < MaxTokens
     /\ IF invalid # NoErr
        THEN /\ last' = Failed(r, build, invalid)
             /\ reg' = reg
        ELSE IF findOne(email) # NoUser
        THEN /\ last' = Failed(r, build, Err("Error", "-", "User already exists"))
             /\ reg' = reg
        ELSE /\ reg' = [reg EXCEPT ![p] = [pc |-> "hashed", email |-> email,
                                           password |-> password, flaw |-> flaw,
                                           req |-> NoReq, gate |-> NoGate]]
             /\ last' = last
     /\ UNCHANGED <<build, buildings, rooms, now, users, blacklist, issued>>

\* newUser.save() against the unique index on email, then the tokens, the
\* verification mail and the response
RegisterSave(p, mailOk) ==
  LET email == reg[p].email
      id == IdOf(email)
      r == [Base EXCEPT !.op = "register", !.email = email, !.flaw = reg[p].flaw]
      newUser == [id |-> id, password |-> hash(reg[p].password), role |-> "renter",
                  isVerified |-> FALSE, isBanned |-> FALSE]
  IN /\ reg[p].pc = "hashed"
     /\ reg' = [reg EXCEPT ![p] = Idle]
     /\ IF users[email] # NoUser
        THEN /\ last' = Failed(r, build, Err("MongoServerError", "11000", "E11000 duplicate key error"))
             /\ UNCHANGED <<users, issued>>
        ELSE /\ users' = [users EXCEPT ![email] = newUser]
             /\ IF mailOk
                THEN /\ issued' = issued \cup {generateToken(id, now), generateRefreshToken(id, now),
                                               hourToken(id, now)}
                     /\ last' = [r EXCEPT !.status = 201, !.message = "User registered successfully",
                                          !.user = formatUserResponse(newUser),
                                          !.token = generateToken(id, now),
                                          !.refreshToken = generateRefreshToken(id, now)]
                ELSE /\ issued' = issued
                     /\ last' = Failed(r, build, Err("Error", "-", "Failed to send email"))
     /\ UNCHANGED <<build, buildings, rooms, now, blacklist>>

\* ------------------------------------------------------ Authorization Gate
\* req.headers.authorization?.split(' ')[1] || req.cookies?.token
authToken(req) ==
  IF req.scheme # "none" /\ req.htok # NoToken THEN req.htok ELSE req.ctok

\* validateToken of the controllers
validateToken(req) ==
  IF req.scheme = "Bearer" THEN req.htok
  ELSE IF req.ctok # NoToken THEN req.ctok
  ELSE NoToken

\* auth without the TokenBlacklist lookup
auth_noBlacklist(req, t) ==
  LET token == authToken(req)
  IN IF token = NoToken
     THEN [ok |-> FALSE, gate |-> "No token provided", status |-> 500, lookup |-> FALSE, token |-> token, caller |-> NoCaller]
     ELSE IF verify(token, "access", t) = "JsonWebTokenError"
     THEN [ok |-> FALSE, gate |-> "Invalid token", status |-> 401, lookup |-> FALSE, token |-> token, caller |-> NoCaller]
     ELSE IF verify(token, "access", t) = "TokenExpiredError"
     THEN [ok |-> FALSE, gate |-> "Token expired", status |-> 401, lookup |-> FALSE, token |-> token, caller |-> NoCaller]
     ELSE [ok |-> TRUE, gate |-> "pass", status |-> 0, lookup |-> FALSE, token |-> token,
           caller |-> [id |-> token.sub, role |-> token.role]]

\* auth: the outcome for a request at time t; lookup says whether
\* AuthService.isTokenBlacklisted was called.  A thrown plain object goes to
\* next(error) and the application's error handler (status err.status || 500)
auth(req, t) ==
  LET token == authToken(req)
  IN IF token = NoToken
     THEN [ok |-> FALSE, gate |-> "No token provided", status |-> 500, lookup |-> FALSE, token |-> token, caller |-> NoCaller]
     ELSE IF isTokenBlacklisted(token)
     THEN [ok |-> FALSE, gate |-> "Token has been revoked", status |-> 500, lookup |-> TRUE, token |-> token, caller |-> NoCaller]
     ELSE IF verify(token, "access", t) = "JsonWebTokenError"
     THEN [ok |-> FALSE, gate |-> "Invalid token", status |-> 401, lookup |-> TRUE, token |-> token, caller |-> NoCaller]
     ELSE IF verify(token, "access", t) = "TokenExpiredError"
     THEN [ok |-> FALSE, gate |-> "Token expired", status |-> 401, lookup |-> TRUE, token |-> token, caller |-> NoCaller]
     ELSE [ok |-> TRUE, gate |-> "pass", status |-> 0, lookup |-> TRUE, token |-> token,
           caller |-> [id |-> token.sub, role |-> token.role]]

\* roleMiddleware(...roles): the status it answers with, 0 for next()
roleMiddleware(caller, roles) ==
  IF caller = NoCaller \/ caller.role = "undefined" THEN 401
  ELSE IF caller.role \notin roles THEN 403
  ELSE 0

\* the part of a response the gate determines
Gated(op, req, g) ==
  [Base EXCEPT !.op = op, !.gate = g.gate, !.verified = g.token, !.status = g.status,
               !.message = IF g.ok THEN "-" ELSE g.gate]

\* the requests a client can send: any token it holds, a forged or a
\* malformed one, in the Authorization header under the Bearer scheme or
\* another one, and in the token cookie
Presentable == issued \cup {Forged, Malformed}
GateRequests ==
  {NoReq}
  \cup {[scheme |-> "Bearer", htok |-> t, ctok |-> NoToken] : t \in Presentable}
  \cup {[scheme |-> "none", htok |-> NoToken, ctok |-> t] : t \in issued}
Requests ==
  GateRequests
  \cup {[scheme |-> "Token", htok |-> t, ctok |-> c] : t \in issued, c \in issued \cup {NoToken}}

\* GET /api/auth/profile: auth, then getProfile of the controller
GetProfile(req) ==
  LET g == auth(req, now)
      r == Gated("getProfile", req, g)
  IN /\ last' =
          IF ~g.ok THEN r
          ELSE IF validateToken(req) = NoToken
          THEN Failed(r, build, Err("object", "INVALID_TOKEN", "No token provided"))
          ELSE IF findById(g.caller.id) = NoUser
          THEN Failed(r, build, Err("Error", "-", "User not found"))
          ELSE [r EXCEPT !.status = 200, !.message = "Profile retrieved successfully",
                         !.user = formatUserResponse(selected(findById(g.caller.id)))]
     /\ UNCHANGED <<build, buildings, rooms, now, users, blacklist, issued, reg>>

\* a route behind auth and roleMiddleware(...roles)
RouteRoles == {{"renter"}, {"landlord"}, {"admin"}, {"landlord", "admin"}}
RoleRoute(req, roles) ==
  LET g == auth(req, now)
      r == [Gated("roleRoute", req, g) EXCEPT !.roles = roles]
      s == roleMiddleware(g.caller, roles)
  IN /\ last' =
          IF ~g.ok THEN r
          ELSE IF s = 401 THEN [r EXCEPT !.status = 401, !.message = "Authentication required"]
          ELSE IF s = 403 THEN [r EXCEPT !.status = 403,
                                         !.message = "You do not have permission to perform this action"]
          ELSE [r EXCEPT !.status = 200]
     /\ UNCHANGED <<build, buildings, rooms, now, users, blacklist, issued, reg>>

\* ---------------------------------------------------------------- profile
\* a request body with one key; the account fields the body can name
Patches ==
  {[k |-> "gender", v |-> "female"], [k |-> "role", v |-> "admin"],
   [k |-> "isBanned", v |-> TRUE], [k |-> "isVerified", v |-> FALSE],
   [k |-> "password", v |-> "Wxyz789#"]}

\* the update of one path of a User document
setPath(user, patch) ==
  IF patch.k = "role" THEN [user EXCEPT !.role = patch.v]
  ELSE IF patch.k = "isBanned" THEN [user EXCEPT !.isBanned = patch.v]
  ELSE IF patch.k = "isVerified" THEN [user EXCEPT !.isVerified = patch.v]
  ELSE IF patch.k = "password" THEN [user EXCEPT !.password = patch.v]
  ELSE user

allowedUpdates ==
  {"dob", "gender", "preferredUtilities", "preferredPriceRange", "avatar", "verificationDocument"}

\* AuthService.updateProfile: only the keys of allowedUpdates are assigned
updateProfile(user, patch) ==
  IF patch.k \in allowedUpdates THEN setPath(user, patch) ELSE user

\* updateProfile of the user controller: req.body without password goes to
\* User.findByIdAndUpdate
updateProfile_user(user, patch) ==
  IF patch.k = "password" THEN user ELSE setPath(user, patch)

\* PUT /api/auth/profile
UpdateProfile(req, patch) ==
  LET g == auth(req, now)
      r == Gated("updateProfile", req, g)
      user == findById(g.caller.id)
  IN /\ IF ~g.ok
        THEN last' = r /\ users' = users
        ELSE IF validateToken(req) = NoToken
        THEN /\ last' = Failed(r, build, Err("object", "INVALID_TOKEN", "No token provided"))
             /\ users' = users
        ELSE IF user = NoUser
        THEN /\ last' = Failed(r, build, Err("Error", "-", "User not found"))
             /\ users' = users
        ELSE /\ users' = [users EXCEPT ![EmailOfId(user.id)] = updateProfile(user, patch)]
             /\ last' = [r EXCEPT !.status = 200, !.message = "Profile updated successfully",
                                  !.user = formatUserResponse(selected(updateProfile(user, patch)))]
     /\ UNCHANGED <<build, buildings, rooms, now, blacklist, issued, reg>>

\* PUT /api/users/profile
UpdateUserProfile(req, patch) ==
  LET g == auth(req, now)
      r == Gated("updateUserProfile", req, g)
      user == findById(g.caller.id)
  IN /\ IF ~g.ok
        THEN last' = r /\ users' = users
        ELSE IF user = NoUser
        THEN /\ last' = [r EXCEPT !.status = 404, !.message = "User not found"]
             /\ users' = users
        ELSE /\ users' = [users EXCEPT ![EmailOfId(user.id)] = updateProfile_user(user, patch)]
             /\ last' = [r EXCEPT !.status = 200, !.message = "Profile updated successfully",
                                  !.user = selected(updateProfile_user(user, patch))]
     /\ UNCHANGED <<build, buildings, rooms, now, blacklist, issued, reg>>

\* ----------------------------------------------------------- verification
\* the message of the error jwt.verify throws
jwtError(v) ==
  IF v = "TokenExpiredError" THEN Err("TokenExpiredError", "-", "jwt expired")
  ELSE Err("JsonWebTokenError", "-", "invalid signature")

\* AuthService.verifyEmail: the error it throws, NoErr on success
verifyEmail(tok, t) ==
  IF verify(tok, "access", t) # "ok" THEN jwtError(verify(tok, "access", t))
  ELSE IF findById(tok.sub) = NoUser THEN Err("Error", "-", "User not found")
  ELSE NoErr

\* GET /api/auth/verify-email/:token
VerifyEmail(tok) ==
  LET e == verifyEmail(tok, now)
      r == [Base EXCEPT !.op = "verifyEmail", !.tokIn = tok]
  IN /\ IF e # NoErr
        THEN last' = Failed(r, build, e) /\ users' = users
        ELSE /\ users' = [users EXCEPT ![EmailOfId(tok.sub)].isVerified = TRUE]
             /\ last' = [r EXCEPT !.status = 200, !.message = "Email verified successfully"]
     /\ UNCHANGED <<build, buildings, rooms, now, blacklist, issued, reg>>

\* -------------------------------------------------------------- passwords
\* POST /api/auth/forgot-password: the reset token goes out by mail
ForgotPassword(email, mailOk) ==
  LET r == [Base EXCEPT !.op = "forgotPassword", !.email = email]
      user == findOne(email)
  IN /\ Cardinality(issued) < MaxTokens
     /\ IF user = NoUser
        THEN last' = Failed(r, build, Err("Error", "-", "User not found")) /\ issued' = issued
        ELSE IF ~mailOk
        THEN last' = Failed(r, build, Err("Error", "-", "Failed to send email")) /\ issued' = issued
        ELSE /\ issued' = issued \cup {hourToken(user.id, now)}
             /\ last' = [r EXCEPT !.status = 200, !.message = "Password reset email sent successfully"]
     /\ UNCHANGED <<build, buildings, rooms, now, users, blacklist, reg>>

\* AuthService.resetPassword of auth.service.ts: the error it throws
resetPassword_ts(tok, t) ==
  IF verify(tok, "access", t) # "ok" THEN jwtError(verify(tok, "access", t))
  ELSE IF findById(tok.sub) = NoUser THEN Err("Error", "-", "User not found")
  ELSE NoErr

\* AuthService.resetPassword of auth.service.js: the catch block renames a
\* JsonWebTokenError
resetPassword_js(tok, t) ==
  IF verify(tok, "access", t) = "JsonWebTokenError"
  THEN Err("Error", "-", "Invalid or expired reset token")
  ELSE IF verify(tok, "access", t) = "TokenExpiredError" THEN jwtError("TokenExpiredError")
  ELSE IF findById(tok.sub) = NoUser THEN Err("Error", "-", "User not found")
  ELSE NoErr

\* POST /api/auth/reset-password
ResetPassword(tok, newPassword) ==
  LET e == IF build = "ts" THEN resetPassword_ts(tok, now) ELSE resetPassword_js(tok, now)
      r == [Base EXCEPT !.op = "resetPassword", !.tokIn = tok, !.newPassword = newPassword]
  IN /\ IF e # NoErr
        THEN last' = Failed(r, build, e) /\ users' = users
        ELSE /\ users' = [users EXCEPT ![EmailOfId(tok.sub)].password = hash(newPassword)]
             /\ last' = [r EXCEPT !.status = 200, !.message = "Password reset successfully"]
     /\ UNCHANGED <<build, buildings, rooms, now, blacklist, issued, reg>>

\* passwords written out character by character: one character of each
\* class the controllers test for, lengths around the limit, the characters
\* of a password in the order lower, upper, digit, special, and only its
\* first character repeated
Lower == {"a"}
Upper == {"A"}
Digit == {"1"}
Special == {"!"}
Chars == Lower \cup Upper \cup Digit \cup Special
Alphabet == <<"a", "A", "1", "!">>
\* the characters at the positions S of Alphabet, in that order
Picked(S) ==
  [k \in 1..Cardinality(S) |->
     Alphabet[CHOOSE i \in S : Cardinality({j \in S : j < i}) = k - 1]]
\* core with its first character repeated up to n characters
Padded(core, n) ==
  [i \in 1..n |-> IF i <= n - Len(core) THEN core[1] ELSE core[i - (n - Len(core))]]
TypedPasswords ==
  {Padded(Picked(S), n) : S \in (SUBSET (1..4)) \ {{}}, n \in (MinLength - 1)..MaxTyped}

\* /[...]/.test(password): some character of the password is in the class
test(class, pw) == \E i \in 1..Len(pw) : pw[i] \in class

\* the controllers' inline test of a new password: TRUE when it passes
passwordTest(pw) ==
  ~(\/ Len(pw) < MinLength
    \/ ~test(Upper, pw)
    \/ ~test(Lower, pw)
    \/ ~test(Digit, pw)
    \/ ~test(Special, pw))

\* POST /api/auth/reset-password with a written-out newPassword: the
\* controller's test, then AuthService.resetPassword
ResetPasswordTyped(tok, pw) ==
  LET r == [Base EXCEPT !.op = "resetPassword", !.tokIn = tok, !.newPassword = pw]
      passes == IF build = "ts" THEN passwordTest(pw)
                ELSE validatePassword(IF passwordTest(pw) THEN "none" ELSE "password")
  IN IF ~passes
     THEN /\ last' = Failed(r, build, Err("object", "INVALID_PASSWORD",
                 "New password must be at least 8 characters long and contain uppercase, lowercase, number and special character"))
          /\ UNCHANGED <<build, buildings, rooms, now, users, blacklist, issued, reg>>
     ELSE ResetPassword(tok, pw)

\* a changePassword that looks the account up by _id
changePassword_byId(email, newPassword) ==
  IF findById(email) = NoUser
  THEN [err |-> Err("Error", "-", "User not found"), users |-> users]
  ELSE [err |-> NoErr,
        users |-> [users EXCEPT ![EmailOfId(email)].password = hash(newPassword)]]

\* AuthService.changePassword(email, newPassword): looks the account up by
\* email and stores the hash of its second argument
changePassword(email, newPassword) ==
  IF findOne(email) = NoUser
  THEN [err |-> Err("Error", "-", "User not found"), users |-> users]
  ELSE [err |-> NoErr, users |-> [users EXCEPT ![email].password = hash(newPassword)]]

\* PUT /api/auth/change-password: both controllers pass req.user._id and
\* oldPassword as the first two arguments
ChangePassword(req, oldPassword, newPassword) ==
  LET g == auth(req, now)
      r == [Gated("changePassword", req, g) EXCEPT !.oldPassword = oldPassword,
                                                   !.newPassword = newPassword]
      c == changePassword(g.caller.id, oldPassword)
  IN /\ IF ~g.ok
        THEN last' = r /\ users' = users
        ELSE IF validateToken(req) = NoToken
        THEN /\ last' = Failed(r, build, Err("object", "INVALID_TOKEN", "No token provided"))
             /\ users' = users
        ELSE IF c.err # NoErr
        THEN last' = Failed(r, build, c.err) /\ users' = users
        ELSE /\ users' = c.users
             /\ last' = [r EXCEPT !.status = 200, !.message = "Password changed successfully"]
     /\ UNCHANGED <<build, buildings, rooms, now, blacklist, issued, reg>>

\* ---------------------------------------------------------------- refresh
\* AuthService.refreshToken of auth.service.ts
refreshToken_ts(tok, t) ==
  IF verify(tok, "refresh", t) # "ok"
  THEN [err |-> jwtError(verify(tok, "refresh", t)), token |-> NoToken, refreshToken |-> NoToken]
  ELSE IF findById(tok.sub) = NoUser
  THEN [err |-> Err("Error", "-", "User not found"), token |-> NoToken, refreshToken |-> NoToken]
  ELSE [err |-> NoErr, token |-> generateToken(tok.sub, t),
        refreshToken |-> generateRefreshToken(tok.sub, t)]

\* AuthService.refreshToken of auth.service.js: only a new access token
refreshToken_js(tok, t) ==
  IF verify(tok, "refresh", t) # "ok"
  THEN [err |-> Err("Error", "-", "Failed to refresh token: invalid or expired"),
        token |-> NoToken, refreshToken |-> NoToken]
  ELSE IF findById(tok.sub) = NoUser
  THEN [err |-> Err("Error", "-", "Failed to refresh token: User not found"),
        token |-> NoToken, refreshToken |-> NoToken]
  ELSE [err |-> NoErr, token |-> generateToken(tok.sub, t), refreshToken |-> NoToken]

refreshToken(b, tok, t) == IF b = "ts" THEN refreshToken_ts(tok, t) ELSE refreshToken_js(tok, t)

\* POST /api/auth/refresh-token
RefreshToken(tok) ==
  LET f == refreshToken(build, tok, now)
      r == [Base EXCEPT !.op = "refreshToken", !.tokIn = tok]
  IN /\ f.err = NoErr => Cardinality(issued) < MaxTokens
     /\ IF f.err # NoErr
        THEN last' = Failed(r, build, f.err) /\ issued' = issued
        ELSE /\ issued' = issued \cup ({f.token, f.refreshToken} \ {NoToken})
             /\ last' = [r EXCEPT !.status = 200, !.message = "Token refreshed successfully",
                                  !.token = f.token, !.refreshToken = f.refreshToken]
     /\ UNCHANGED <<build, buildings, rooms, now, users, blacklist, reg>>

\* ------------------------------------------------------ logout and revoke
\* TokenBlacklist documents: token is unique, expiresAt is required
Missing == -1
blacklistSave(doc) ==
  IF doc.expiresAt = Missing THEN Err("ValidationError", "-", "Path expiresAt is required.")
  ELSE IF isTokenBlacklisted(doc.token) THEN Err("MongoServerError", "11000", "E11000 duplicate key error")
  ELSE NoErr

\* jwt.decode(token): null for a string that is not a JWT
decodable(tok) == tok.key \notin {"malformed", "absent"}

\* AuthService.revokeToken of auth.service.ts: the document it saves
revokeToken_ts(tok) == [err |-> NoErr, doc |-> [token |-> tok, expiresAt |-> Missing]]

\* AuthService.revokeToken of auth.service.js: verifies with the refresh secret
revokeToken_js(tok, t) ==
  IF verify(tok, "refresh", t) = "JsonWebTokenError"
  THEN [err |-> Err("Error", "-", "Failed to revoke token: invalid signature"), doc |-> [token |-> tok, expiresAt |-> Missing]]
  ELSE IF verify(tok, "refresh", t) = "TokenExpiredError"
  THEN [err |-> Err("Error", "-", "Failed to revoke token: jwt expired"), doc |-> [token |-> tok, expiresAt |-> Missing]]
  ELSE IF findById(tok.sub) = NoUser
  THEN [err |-> Err("Error", "-", "Failed to revoke token: User not found"), doc |-> [token |-> tok, expiresAt |-> Missing]]
  ELSE [err |-> NoErr, doc |-> [token |-> tok, expiresAt |-> tok.exp]]

\* AuthService.logout of auth.service.ts: revokeToken(token)
logout_ts(userId, tok) == revokeToken_ts(tok)

\* logout_js with the record expiring at the token's issue time
logout_js_expiresAtIssue(userId, tok) ==
  IF findById(userId) = NoUser
  THEN [err |-> Err("Error", "-", "User not found"), doc |-> [token |-> tok, expiresAt |-> Missing]]
  ELSE IF ~decodable(tok)
  THEN [err |-> Err("Error", "-", "Invalid token"), doc |-> [token |-> tok, expiresAt |-> Missing]]
  ELSE [err |-> NoErr, doc |-> [token |-> tok, expiresAt |-> tok.iat]]

\* AuthService.logout of auth.service.js: decode only, expiresAt = decoded exp
logout_js(userId, tok) ==
  IF findById(userId) = NoUser
  THEN [err |-> Err("Error", "-", "User not found"), doc |-> [token |-> tok, expiresAt |-> Missing]]
  ELSE IF ~decodable(tok)
  THEN [err |-> Err("Error", "-", "Invalid token"), doc |-> [token |-> tok, expiresAt |-> Missing]]
  ELSE [err |-> NoErr, doc |-> [token |-> tok, expiresAt |-> tok.exp]]

\* what a revoking request does once the gate let it through
Revoking(r, tok, svc, okMessage) ==
  LET e == IF svc.err # NoErr THEN svc.err ELSE blacklistSave(svc.doc)
  IN IF tok = NoToken
     THEN /\ last' = Failed(r, build, Err("object", "INVALID_TOKEN", "No token provided"))
          /\ blacklist' = blacklist
     ELSE IF e # NoErr
     THEN /\ last' = Failed(r, build, e)
          /\ blacklist' = blacklist
     ELSE /\ blacklist' = blacklist \cup {svc.doc}
          /\ last' = [r EXCEPT !.status = 200, !.message = okMessage, !.wrote = tok]

\* POST /api/auth/logout: auth, then logout of the controller
Logout(req) ==
  LET g == auth(req, now)
      r == Gated("logout", req, g)
      tok == validateToken(req)
  IN /\ IF ~g.ok
        THEN /\ last' = r
             /\ UNCHANGED <<blacklist>>
        ELSE Revoking(r, tok,
                      IF build = "ts" THEN logout_ts(g.caller.id, tok) ELSE logout_js(g.caller.id, tok),
                      "Logged out successfully")
     /\ UNCHANGED <<build, buildings, rooms, now, users, issued, reg>>

\* POST /api/auth/logout up to the end of auth: the lookup in the
\* TokenBlacklist and jwt.verify; the controller's awaits follow, so another
\* request can run before TokenBlacklist.create
LogoutGate(p, req) ==
  LET g == auth(req, now)
  IN /\ reg[p].pc = "idle"
     /\ IF ~g.ok
        THEN /\ last' = Gated("logout", req, g)
             /\ reg' = reg
        ELSE /\ reg' = [reg EXCEPT ![p] = [Idle EXCEPT !.pc = "gated", !.req = req, !.gate = g]]
             /\ last' = last
     /\ UNCHANGED <<build, buildings, rooms, now, users, blacklist, issued>>

\* logout of the controller for a request that auth let through
LogoutSave(p) ==
  LET req == reg[p].req
      g == reg[p].gate
      tok == validateToken(req)
  IN /\ reg[p].pc = "gated"
     /\ Revoking(Gated("logout", req, g), tok,
                 IF build = "ts" THEN logout_ts(g.caller.id, tok) ELSE logout_js(g.caller.id, tok),
                 "Logged out successfully")
     /\ reg' = [reg EXCEPT ![p] = Idle]
     /\ UNCHANGED <<build, buildings, rooms, now, users, issued>>

\* POST /api/auth/revoke-token: auth, then revokeToken of the controller
RevokeToken(req) ==
  LET g == auth(req, now)
      r == Gated("revokeToken", req, g)
      tok == validateToken(req)
  IN /\ IF ~g.ok
        THEN /\ last' = r
             /\ UNCHANGED <<blacklist>>
        ELSE Revoking(r, tok,
                      IF build = "ts" THEN revokeToken_ts(tok) ELSE revokeToken_js(tok, now),
                      "Token revoked successfully")
     /\ UNCHANGED <<build, buildings, rooms, now, users, issued, reg>>

\* the TTL index on expiresAt (expireAfterSeconds: 0): the monitor removes a
\* document at some time at or after its expiresAt
Evict ==
  \E d \in blacklist :
     /\ d.expiresAt <= now
     /\ blacklist' = blacklist \ {d}
     /\ UNCHANGED <<build, buildings, rooms, now, users, issued, reg, last>>

\* ---------------------------------------------------- buildings and rooms
\* the bodies of building requests: totalRooms and availableRooms
BuildingBodies ==
  {[totalRooms |-> t, availableRooms |-> a] : t \in 0..MaxRooms, a \in (-1)..MaxRooms}

\* the schema validators of a Building: totalRooms min 1, availableRooms min 0
buildingValidators(doc) ==
  IF doc.totalRooms < 1
  THEN Err("ValidationError", "-", "Path totalRooms is less than minimum allowed value (1).")
  ELSE IF doc.availableRooms < 0
  THEN Err("ValidationError", "-", "Path availableRooms is less than minimum allowed value (0).")
  ELSE NoErr

\* building.save(): the validators, then buildingSchema.pre('save'); the
\* second next() of the hook is ignored once next(error) was called
buildingSave(doc) ==
  IF buildingValidators(doc) # NoErr THEN buildingValidators(doc)
  ELSE IF doc.availableRooms > doc.totalRooms
  THEN Err("Error", "-", "Available rooms cannot be greater than total rooms")
  ELSE NoErr

\* the answer of the building and room controllers
Answered(r, okStatus, e) ==
  IF e = NoErr THEN [r EXCEPT !.status = okStatus]
  ELSE [r EXCEPT !.status = 500, !.err = e, !.message = e.message]

\* POST /api/buildings: BuildingService.createBuilding(req.body)
CreateBuilding(id, body) ==
  LET doc == [totalRooms |-> body.totalRooms, availableRooms |-> body.availableRooms, stored |-> TRUE]
      e == buildingSave(doc)
      r == [Base EXCEPT !.op = "createBuilding", !.target = id, !.body = body]
  IN /\ ~buildings[id].stored
     /\ buildings' = IF e = NoErr THEN [buildings EXCEPT ![id] = doc] ELSE buildings
     /\ last' = Answered(r, 201, e)
     /\ UNCHANGED <<build, now, users, blacklist, issued, reg, rooms>>

\* BuildingService.updateBuilding: findByIdAndUpdate(id, { $set: updateData },
\* { runValidators: true }); the validators of the paths that are set, no
\* pre('save'); an undefined updateData sets nothing
updateBuilding(doc, updateData) ==
  IF ~doc.stored
  THEN [err |-> Err("NotFoundError", "-", "Building not found"), doc |-> doc]
  ELSE IF ~updateData.defined THEN [err |-> NoErr, doc |-> doc]
  ELSE IF buildingValidators(updateData.value) # NoErr
  THEN [err |-> buildingValidators(updateData.value), doc |-> doc]
  ELSE [err |-> NoErr,
        doc |-> [doc EXCEPT !.totalRooms = updateData.value.totalRooms,
                            !.availableRooms = updateData.value.availableRooms]]

\* PUT /api/buildings/:id: the controller calls
\* BuildingService.updateBuilding(buildingId) and passes no update data
UpdateBuilding(id, body) ==
  LET u == updateBuilding(buildings[id], NoArgument)
      r == [Base EXCEPT !.op = "updateBuilding", !.target = id, !.body = body]
  IN /\ buildings' = [buildings EXCEPT ![id] = u.doc]
     /\ last' = Answered(r, 200, u.err)
     /\ UNCHANGED <<build, now, users, blacklist, issued, reg, rooms>>

\* building.updateAvailability(rooms), an instance method that no handler
\* calls: the sum must not be negative, then save()
UpdateAvailability(id, n) ==
  LET doc == [buildings[id] EXCEPT !.availableRooms = @ + n]
      e == IF buildings[id].availableRooms + n < 0
           THEN Err("Error", "-", "Not enough available rooms")
           ELSE buildingSave(doc)
      r == [Base EXCEPT !.op = "updateAvailability", !.target = id, !.body = n]
  IN /\ buildings[id].stored
     /\ buildings' = IF e = NoErr THEN [buildings EXCEPT ![id] = doc] ELSE buildings
     /\ last' = Answered(r, 200, e)
     /\ UNCHANGED <<build, now, users, blacklist, issued, reg, rooms>>

\* the values of the paths of a Room that the hooks read
Statuses == {"available", "rented", "maintenance", "reserved"}
Tenants == {"u1"}
\* a path the body does not name
Absent == "absent"
RoomBodies ==
  {[buildingId |-> b, status |-> st, currentTenant |-> t] :
     b \in BuildingIds, st \in Statuses \cup {Absent}, t \in Tenants \cup {Absent}}
RoomUpdates ==
  {[status |-> st, currentTenant |-> t] :
     st \in Statuses \cup {Absent}, t \in Tenants \cup {Undefined, Absent}}

\* validateRoomConsistency, the pre('save') hook of a Room
validateRoomConsistency(room) ==
  IF room.status = "rented" /\ room.currentTenant = Undefined
  THEN Err("Error", "-", "Rented room must have a current tenant")
  ELSE NoErr

\* POST /api/rooms: RoomService.createRoom(req.body); status defaults to
\* 'available'
CreateRoom(id, body) ==
  LET doc == [buildingId |-> body.buildingId,
              status |-> IF body.status = Absent THEN "available" ELSE body.status,
              currentTenant |-> IF body.currentTenant = Absent THEN Undefined ELSE body.currentTenant,
              stored |-> TRUE]
      e == validateRoomConsistency(doc)
      r == [Base EXCEPT !.op = "createRoom", !.target = id, !.body = body]
  IN /\ ~rooms[id].stored
     /\ rooms' = IF e = NoErr THEN [rooms EXCEPT ![id] = doc] ELSE rooms
     /\ last' = Answered(r, 201, e)
     /\ UNCHANGED <<build, now, users, blacklist, issued, reg, buildings>>

\* validateRoomUpdate(filter, update, options, next): every path of the
\* function ends in a call of its fourth parameter; when that is not a
\* function the call throws a TypeError, in the catch block as well
validateRoomUpdate(filter, update, options, next) ==
  IF next # "function" THEN Err("TypeError", "-", "next is not a function")
  ELSE IF ~update.defined THEN NoErr
  ELSE IF update.value.status = "rented" /\ update.value.currentTenant \in {Absent, Undefined}
  THEN Err("Error", "-", "Cannot set room status to rented without a tenant")
  ELSE NoErr

\* the hook called with the update in its second and next in its fourth
\* parameter
preFindOneAndUpdate_asDeclared(update) ==
  validateRoomUpdate(NoArgument, Argument(update), NoArgument, "function")

\* roomSchema.pre('findOneAndUpdate', validateRoomUpdate) as mongoose 7 runs
\* it: a query hook is called with next as its first argument and nothing
\* else
preFindOneAndUpdate(update) ==
  validateRoomUpdate(Argument("function"), NoArgument, NoArgument, Undefined)

\* PUT /api/rooms/:id: RoomService.updateRoom(id, req.body)
UpdateRoom(id, body) ==
  LET e == IF body.status = Absent /\ body.currentTenant = Absent
           THEN Err("ValidationError", "-", "Update data is required")
           ELSE IF preFindOneAndUpdate(body) # NoErr THEN preFindOneAndUpdate(body)
           ELSE IF ~rooms[id].stored THEN Err("NotFoundError", "-", "Room not found")
           ELSE NoErr
      doc == [rooms[id] EXCEPT
                !.status = IF body.status = Absent THEN @ ELSE body.status,
                !.currentTenant = IF body.currentTenant = Absent THEN @ ELSE body.currentTenant]
      r == [Base EXCEPT !.op = "updateRoom", !.target = id, !.body = body]
  IN /\ rooms' = IF e = NoErr THEN [rooms EXCEPT ![id] = doc] ELSE rooms
     /\ last' = Answered(r, 200, e)
     /\ UNCHANGED <<build, now, users, blacklist, issued, reg, buildings>>

\* DELETE /api/rooms/:id: RoomService.deleteRoom; $inc availableRooms of the
\* room's building by 1 and delete the room
DeleteRoom(id) ==
  LET b == rooms[id].buildingId
      r == [Base EXCEPT !.op = "deleteRoom", !.target = id]
  IN /\ IF ~rooms[id].stored
        THEN /\ last' = Answered(r, 200, Err("NotFoundError", "-", "Room not found"))
             /\ UNCHANGED <<buildings, rooms>>
        ELSE /\ buildings[b].stored => buildings[b].availableRooms <= MaxRooms
             /\ buildings' = IF buildings[b].stored
                             THEN [buildings EXCEPT ![b].availableRooms = @ + 1]
                             ELSE buildings
             /\ rooms' = [rooms EXCEPT ![id] = NoRoom]
             /\ last' = Answered(r, 200, NoErr)
     /\ UNCHANGED <<build, now, users, blacklist, issued, reg>>

\* ------------------------------------------------------------------- time
Tick ==
  /\ now < MaxTime
  /\ now' = now + 1
  /\ UNCHANGED <<build, buildings, rooms, users, blacklist, issued, reg, last>>

Init ==
  /\ build \in Builds
  /\ now = 0
  /\ users = [e \in Emails |-> NoUser]
  /\ blacklist = {}
  /\ issued = {}
  /\ reg = [p \in Procs |-> Idle]
  /\ last = Base
  /\ buildings = [b \in BuildingIds |-> NoBuilding]
  /\ rooms = [r \in RoomIds |-> NoRoom]

Registering(procs) ==
  \/ \E p \in procs, e \in Registrants, pw \in Passwords : RegisterCheck(p, e, pw, "none")
  \/ \E p \in procs, mailOk \in BOOLEAN : RegisterSave(p, mailOk)

\* register requests with a body that has a flaw
RegisteringFlawed(procs) ==
  \E p \in procs, e \in Registrants, pw \in Passwords, flaw \in Flaws \ {"none"} :
     RegisterCheck(p, e, pw, flaw)

\* the whole interface
Next ==
  \/ Registering(Procs)
  \/ RegisteringFlawed(Procs)
  \/ \E e \in Emails, p \in Passwords : Login(e, p)
  \/ \E req \in GateRequests : GetProfile(req)
  \/ \E req \in GateRequests, roles \in RouteRoles : RoleRoute(req, roles)
  \/ \E req \in GateRequests, patch \in Patches : UpdateProfile(req, patch)
  \/ \E req \in GateRequests, patch \in Patches : UpdateUserProfile(req, patch)
  \/ \E tok \in Presentable : VerifyEmail(tok)
  \/ \E e \in Emails, mailOk \in BOOLEAN : ForgotPassword(e, mailOk)
  \/ \E tok \in Presentable, pw \in Passwords : ResetPassword(tok, pw)
  \/ \E req \in GateRequests, old \in Passwords, new \in Passwords : ChangePassword(req, old, new)
  \/ \E tok \in Presentable : RefreshToken(tok)
  \/ \E req \in Requests : Logout(req)
  \/ \E req \in Requests : RevokeToken(req)
  \/ \E tok \in Presentable, pw \in TypedPasswords : ResetPasswordTyped(tok, pw)
  \/ \E p \in Procs, req \in GateRequests : LogoutGate(p, req)
  \/ \E p \in Procs : LogoutSave(p)
  \/ \E id \in BuildingIds, body \in BuildingBodies : CreateBuilding(id, body)
  \/ \E id \in BuildingIds, body \in BuildingBodies : UpdateBuilding(id, body)
  \/ \E id \in BuildingIds, n \in {-1, 1} : UpdateAvailability(id, n)
  \/ \E id \in RoomIds, body \in RoomBodies : CreateRoom(id, body)
  \/ \E id \in RoomIds, body \in RoomUpdates : UpdateRoom(id, body)
  \/ \E id \in RoomIds : DeleteRoom(id)
  \/ Evict
  \/ Tick

Spec == Init /\ [][Next]_vars

\* registration, login, the gate, logout and revocation, eviction and time
NextSession ==
  \/ Registering({"p1"})
  \/ \E e \in Emails, p \in Passwords : Login(e, p)
  \/ \E req \in GateRequests : GetProfile(req)
  \/ \E req \in Requests : Logout(req)
  \/ \E req \in Requests : RevokeToken(req)
  \/ Evict
  \/ Tick

SpecSession == Init /\ [][NextSession]_vars

\* registration, login, the profile endpoints and the role-gated routes
NextAccount ==
  \/ Registering({"p1"})
  \/ \E e \in Emails, p \in Passwords : Login(e, p)
  \/ \E req \in GateRequests, roles \in RouteRoles : RoleRoute(req, roles)
  \/ \E req \in GateRequests, patch \in Patches : UpdateProfile(req, patch)
  \/ \E req \in GateRequests, patch \in Patches : UpdateUserProfile(req, patch)
  \/ \E tok \in Presentable : VerifyEmail(tok)
  \/ Tick

SpecAccount == Init /\ [][NextAccount]_vars

\* registration, login, the gate in front of the profile, logout, eviction
NextGate ==
  \/ Registering({"p1"})
  \/ \E e \in Emails, p \in Passwords : Login(e, p)
  \/ \E req \in GateRequests : GetProfile(req)
  \/ \E req \in GateRequests : Logout(req)
  \/ Evict
  \/ Tick

SpecGate == Init /\ [][NextGate]_vars

\* registration, login and the profile endpoint of the user controller
NextLogin ==
  \/ Registering({"p1"})
  \/ \E e \in Emails, p \in Passwords : Login(e, p)
  \/ \E req \in GateRequests, patch \in Patches : UpdateUserProfile(req, patch)
  \/ Tick

SpecLogin == Init /\ [][NextLogin]_vars

\* registration, login, forgot-password and reset-password, and the profile
\* endpoint of the user controller with a body that sets isBanned
NextReset ==
  \/ Registering({"p1"})
  \/ \E e \in Emails, p \in Passwords : Login(e, p)
  \/ \E e \in Emails, mailOk \in BOOLEAN : ForgotPassword(e, mailOk)
  \/ \E tok \in Presentable, pw \in Passwords : ResetPassword(tok, pw)
  \/ \E req \in GateRequests : UpdateUserProfile(req, [k |-> "isBanned", v |-> TRUE])
  \/ Tick

SpecReset == Init /\ [][NextReset]_vars

\* registration, login and change-password
NextChange ==
  \/ Registering({"p1"})
  \/ \E e \in Emails, p \in Passwords : Login(e, p)
  \/ \E req \in GateRequests, old \in Passwords, new \in Passwords : ChangePassword(req, old, new)
  \/ Tick

SpecChange == Init /\ [][NextChange]_vars

\* registration and reset-password with written-out passwords
NextStrength ==
  \/ Registering({"p1"})
  \/ \E tok \in Presentable, pw \in TypedPasswords : ResetPasswordTyped(tok, pw)
  \/ Tick

SpecStrength == Init /\ [][NextStrength]_vars

\* the requests that answer with an account object
NextReturn ==
  \/ Registering({"p1"})
  \/ \E e \in Emails, p \in Passwords : Login(e, p)
  \/ \E req \in GateRequests : GetProfile(req)
  \/ \E req \in GateRequests, patch \in Patches : UpdateProfile(req, patch)
  \/ \E req \in GateRequests : UpdateUserProfile(req, [k |-> "gender", v |-> "female"])
  \/ \E tok \in Presentable : VerifyEmail(tok)
  \/ Tick

SpecReturn == Init /\ [][NextReturn]_vars

\* concurrent registration and login
NextRegister ==
  \/ Registering(Procs)
  \/ RegisteringFlawed(Procs)
  \/ \E e \in Emails, p \in Passwords : Login(e, p)
  \/ Tick

SpecRegister == Init /\ [][NextRegister]_vars

\* registration, login and refresh
NextRefresh ==
  \/ Registering({"p1"})
  \/ \E e \in Emails, p \in Passwords : Login(e, p)
  \/ \E tok \in Presentable : RefreshToken(tok)
  \/ Tick

SpecRefresh == Init /\ [][NextRefresh]_vars

\* registration, revoke-token and refresh-token
NextRevoke ==
  \/ Registering({"p1"})
  \/ \E req \in Requests : RevokeToken(req)
  \/ \E tok \in Presentable : RefreshToken(tok)
  \/ Tick

SpecRevoke == Init /\ [][NextRevoke]_vars

\* registration and logout requests that can overlap
NextLogout ==
  \/ Registering({"p1"})
  \/ \E p \in Procs, req \in GateRequests : LogoutGate(p, req)
  \/ \E p \in Procs : LogoutSave(p)
  \/ Tick

SpecLogout == Init /\ [][NextLogout]_vars

\* the building and room requests
NextListing ==
  \/ \E id \in BuildingIds, body \in BuildingBodies : CreateBuilding(id, body)
  \/ \E id \in BuildingIds, body \in BuildingBodies : UpdateBuilding(id, body)
  \/ \E id \in BuildingIds, n \in {-1, 1} : UpdateAvailability(id, n)
  \/ \E id \in RoomIds, body \in RoomBodies : CreateRoom(id, body)
  \/ \E id \in RoomIds, body \in RoomUpdates : UpdateRoom(id, body)
  \/ \E id \in RoomIds : DeleteRoom(id)

SpecListing == Init /\ [][NextListing]_vars
\* ================================================================= claims
Bearer(tok) == [scheme |-> "Bearer", htok |-> tok, ctok |-> NoToken]
RevokingOps == {"logout", "revokeToken"}

\* C1: at every moment, for every request a client can send, auth lets the
\* request through if and only if the token it carries was signed with the
\* access secret, has not expired, and is in no TokenBlacklist document.
C1_AuthIffValid ==
  \A req \in Requests :
    LET tok == authToken(req)
    IN auth(req, now).ok <=>
         /\ tok.key = "access"
         /\ now < tok.exp
         /\ \A d \in blacklist : d.token # tok

\* C1's case: a request whose token carries a good signature and is not
\* expired has just been turned away because the token is blacklisted
C1_Witness ==
  /\ last.op = "getProfile"
  /\ last.gate = "Token has been revoked"
  /\ last.verified.key = "access"
  /\ now < last.verified.exp
  /\ isTokenBlacklisted(last.verified)

\* C2: once logout or revoke-token has been called with an access token that
\* auth accepted, then for as long as that token's signature and expiry stay
\* valid the token is in the TokenBlacklist and auth turns it away as revoked.
C2_RevokedAfterLogout ==
  (/\ last.op \in RevokingOps
   /\ last.gate = "pass"
   /\ now < last.verified.exp)
  => /\ isTokenBlacklisted(last.verified)
     /\ auth(Bearer(last.verified), now).gate = "Token has been revoked"

loginResponse(e) == Failed([Base EXCEPT !.op = "login"], build, e)
\* the logins with a stored identity and a secret that is not its secret
WrongSecret(email, password) ==
  findOne(email) # NoUser /\ ~compare(password, findOne(email).password)

C5_LoserGetsUserExists ==
  (/\ last.op = "register"
   /\ last.flaw = "none"
   /\ last.err # NoErr
   /\ last.err.message # "Failed to send email")
  => /\ last.err.code = "USER_EXISTS"
     /\ last.status = 409

\* C6: for every issued token that auth accepts and every set of allowed
\* roles, roleMiddleware lets the caller through exactly when the role of
\* the caller's account is one of the allowed roles.
C6_RoleFromToken ==
  \A tok \in issued, roles \in RouteRoles :
    LET g == auth(Bearer(tok), now)
    IN (g.ok /\ findById(tok.sub) # NoUser)
       => (roleMiddleware(g.caller, roles) = 0 <=> findById(tok.sub).role \in roles)

\* C7: a request that auth let through is never answered 401 by
\* roleMiddleware, and a request answered 403 was let through by auth.
C7_No401AfterAuth ==
  last.op = "roleRoute"
  => /\ (last.gate = "pass" => last.status # 401)
     /\ (last.status = 403 => last.gate = "pass")

\* C8: every account keeps the role it was created with (register creates
\* every account as renter), whatever the callers of the interface do.
C8_RoleNeverChanges ==
  \A e \in Emails : users[e] # NoUser => users[e].role = "renter"

\* C9: a login for an account whose isBanned flag is set fails with the
\* banned error and returns no access token and no refresh token.
C9_BannedLoginFails ==
  (last.op = "login" /\ findOne(last.email) # NoUser /\ findOne(last.email).isBanned)
  => /\ last.err.message = "Account has been banned"
     /\ last.token = NoToken
     /\ last.refreshToken = NoToken

\* C10: a successful refresh returns a refresh token, and it is not the
\* refresh token that was presented.
C10_RefreshRotates ==
  (last.op = "refreshToken" /\ last.status = 200)
  => /\ last.refreshToken # NoToken
     /\ last.refreshToken # last.tokIn

\* the error of a login is the invalid-credentials error of the running build
IsInvalidCredentials(e) == e.message \in {"Invalid email or password", "Invalid credentials"}
\* the account a reset token names
ResetAccount == EmailOfId(last.tokIn.sub)

CallerAccount == findById(last.verified.sub)

\* C12: after a change-password request of an authenticated caller that
\* names the account's password as oldPassword, or that was answered as a
\* success, the account's stored password is the hash of newPassword: the
\* old password is not left in use.
C12_ChangePasswordReplacesSecret ==
  (/\ last.op = "changePassword"
   /\ last.gate = "pass"
   /\ CallerAccount # NoUser
   /\ (last.status = 200 \/ compare(last.oldPassword, CallerAccount.password)))
  => CallerAccount.password = hash(last.newPassword)

\* C13: every register request that is not refused because of its body or
\* because the identity is taken creates the account and is answered 201
\* with an access token and a refresh token, whether or not the verification
\* mail could be sent.
C13_RegisterSurvivesMailFailure ==
  (/\ last.op = "register"
   /\ last.flaw = "none"
   /\ last.err.name # "MongoServerError"
   /\ last.err.message # "User already exists")
  => /\ findOne(last.email) # NoUser
     /\ last.status = 201
     /\ last.token # NoToken
     /\ last.refreshToken # NoToken

\* C14: a register request whose body fails validation writes nothing: the
\* step that answers it leaves the User collection, the TokenBlacklist and
\* the set of issued tokens as they were and is not answered 201, and no
\* request with a flawed body gets as far as the save and the mail.
C14_RejectedBeforeWrite ==
  [][ /\ (last'.op = "register" /\ last'.flaw # "none")
         => /\ users' = users
            /\ blacklist' = blacklist
            /\ issued' = issued
            /\ last'.status \in {400, 500}
      /\ \A p \in Procs : reg'[p].pc = "hashed" => reg'[p].flaw = "none" ]_vars

\* C14's case: with an account already stored, a register request with a
\* flawed body has just been refused
C14_Witness ==
  /\ last.op = "register"
  /\ last.flaw # "none"
  /\ last.status \in {400, 500}
  /\ \E e \in Emails : users[e] # NoUser

IssuingOps == {"register", "login", "refreshToken"}

\* C16: of the tokens a register, login or refresh response hands out, the
\* access token is let through by auth while it is unexpired and not
\* blacklisted and is refused by refresh-token; the refresh token is accepted
\* by refresh-token while it is unexpired and is refused by auth.
C16_SecretsApart ==
  (last.op \in IssuingOps /\ last.status \in {200, 201})
  => /\ (now < last.token.exp /\ ~isTokenBlacklisted(last.token))
          => auth(Bearer(last.token), now).ok
     /\ refreshToken(build, last.token, now).err # NoErr
     /\ last.refreshToken # NoToken
          => /\ now < last.refreshToken.exp
                  => refreshToken(build, last.refreshToken, now).err = NoErr
             /\ ~auth(Bearer(last.refreshToken), now).ok

\* C16's case: a login has just handed out an access and a refresh token,
\* both unexpired
C16_Witness ==
  /\ last.op = "login"
  /\ last.status = 200
  /\ now < last.token.exp
  /\ last.refreshToken # NoToken
  /\ now < last.refreshToken.exp

\* C17: for every token a client holds, auth looks the token up in the
\* TokenBlacklist only after its signature and expiry have been verified,
\* and a token that is both expired and blacklisted is answered as expired.
C17_LookupAfterVerify ==
  \A tok \in issued :
    LET g == auth(Bearer(tok), now)
    IN /\ g.lookup => verify(tok, "access", now) = "ok"
       /\ (verify(tok, "access", now) = "TokenExpiredError" /\ isTokenBlacklisted(tok))
            => g.gate = "Token expired"

\* a token that is blacklisted or past its expiry
Spent(tok) == isTokenBlacklisted(tok) \/ tok.exp <= now

\* C18: every TokenBlacklist document expires when its token does, the TTL
\* index removes a document only at or after its expiresAt, and a token
\* that was blacklisted is refused by auth in every later state, with or
\* without its document (a blacklisted or expired token stays so).
C18_RevokedForGood ==
  [][ /\ \A d \in blacklist' : d.expiresAt = d.token.exp
      /\ \A d \in blacklist \ blacklist' : d.expiresAt <= now
      /\ \A tok \in issued :
            Spent(tok) => /\ Spent(tok)'
                          /\ ~auth(Bearer(tok), now).ok
                          /\ (~auth(Bearer(tok), now).ok)' ]_vars

\* a logged-out token whose document the TTL index has removed
C18_Witness ==
  /\ last.op = "logout" /\ last.status = 200
  /\ last.wrote \in issued
  /\ ~isTokenBlacklisted(last.wrote)
  /\ ~auth(Bearer(last.wrote), now).ok

\* C19: an account starts with isVerified false; the flag turns true only
\* in a successful verifyEmail whose token is the verification token
\* register signed for that account; a true flag is never false again.
C19_VerifiedOnlyByVerifyEmail ==
  [][ \A e \in Emails :
        /\ (users[e] = NoUser /\ users'[e] # NoUser) => ~users'[e].isVerified
        /\ (users[e] # NoUser /\ ~users[e].isVerified /\ users'[e].isVerified)
             => /\ last'.op = "verifyEmail" /\ last'.status = 200
                /\ last'.tokIn = hourToken(users[e].id, last'.tokIn.iat)
        /\ (users[e] # NoUser /\ users[e].isVerified) => users'[e].isVerified ]_vars

\* C20: a successful login leaves the TokenBlacklist as it was, and every
\* token that auth or refreshToken accepted before the login is accepted
\* after it.
C20_LoginRevokesNothing ==
  [][ (last' # last /\ last'.op = "login" /\ last'.status = 200)
        => /\ blacklist' = blacklist
           /\ issued \subseteq issued'
           /\ \A tok \in issued :
                /\ auth(Bearer(tok), now).ok => (auth(Bearer(tok), now).ok)'
                /\ refreshToken(build, tok, now).err = NoErr
                     => (refreshToken(build, tok, now).err = NoErr)' ]_vars

\* after a login, a refresh token of an earlier session of the same account
\* is still accepted next to the tokens the login returned
C20_Witness ==
  /\ last.op = "login" /\ last.status = 200
  /\ auth(Bearer(last.token), now).ok
  /\ \E tok \in issued :
       /\ tok.sub = last.token.sub
       /\ tok.iat < last.refreshToken.iat
       /\ tok # last.refreshToken
       /\ refreshToken(build, tok, now).err = NoErr

\* C21: the access token and the refresh token of a successful login are
\* none of the tokens issued before it (by register or by an earlier login).
C21_LoginTokensFresh ==
  [][ (last' # last /\ last'.op = "login" /\ last'.status = 200)
        => /\ last'.token \notin issued
           /\ last'.refreshToken \notin issued ]_vars

\* the character classes a written-out password draws from
classesOf(pw) == {class \in {Lower, Upper, Digit, Special} : test(class, pw)}

\* C22: the strength check in front of resetPassword (the same inline test
\* as in register and changePassword) lets a password through when it has
\* at least 8 characters from at least 3 of the 4 classes and answers
\* INVALID_PASSWORD when it has only 2 classes or fewer than 8 characters.
C22_ThreeClassesPass ==
  (build = "ts" /\ last.op = "resetPassword" /\ last.newPassword \in TypedPasswords)
  => /\ (Len(last.newPassword) >= 8 /\ Cardinality(classesOf(last.newPassword)) >= 3)
          => last.err.code # "INVALID_PASSWORD"
     /\ (Len(last.newPassword) < 8 \/ Cardinality(classesOf(last.newPassword)) = 2)
          => last.err.code = "INVALID_PASSWORD"

\* C23: a reset-password request whose token has a bad signature or is
\* past its expiry fails with the one error 'Invalid or expired reset token',
\* in both cases, and no account changes.
C23_InvalidOrExpiredToken ==
  [][ (/\ last' # last
       /\ last'.op = "resetPassword"
       /\ verify(last'.tokIn, "access", now) \in {"JsonWebTokenError", "TokenExpiredError"})
        => /\ last'.err.message = "Invalid or expired reset token"
           /\ users' = users ]_vars

\* C24: every request that auth turns away, for a missing token, a bad
\* signature, an expired token or a blacklisted one, is answered 401.
C24_GateFailureIs401 ==
  (last.op = "getProfile" /\ last.gate # "pass") => last.status = 401

C26_TokenPurpose ==
  /\ (last.op \in {"verifyEmail", "resetPassword"} /\ last.status = 200)
       => last.tokIn # generateToken(last.tokIn.sub, last.tokIn.iat)
  /\ \A tok \in issued :
       auth(Bearer(tok), now).ok => tok # hourToken(tok.sub, tok.iat)

\* C27: a change-password request changes an account's stored password
\* only if the account is the caller's and the oldPassword of the request
\* matches the password stored before; otherwise every password stays.
C27_ChangeNeedsOldPassword ==
  [][ (last' # last /\ last'.op = "changePassword")
        => \A e \in Emails :
             users'[e].password # users[e].password
               => /\ last'.gate = "pass"
                  /\ users[e].id = last'.verified.sub
                  /\ compare(last'.oldPassword, users[e].password) ]_vars

\* a change-password request that passed the gate with an oldPassword that
\* is not the caller's password
C27_Witness ==
  /\ last.op = "changePassword" /\ last.gate = "pass"
  /\ CallerAccount # NoUser
  /\ ~compare(last.oldPassword, CallerAccount.password)
  /\ \E p \in Passwords : CallerAccount.password = hash(p)

\* C28: the TokenBlacklist never holds two documents for one token, and a
\* token whose logout passed auth and has run to its end is in the
\* TokenBlacklist with exactly one document for as long as it has not
\* expired, also when two such logouts overlapped.
C28_OneRecordPerToken ==
  /\ \A d1 \in blacklist, d2 \in blacklist : d1.token = d2.token => d1 = d2
  /\ (last.op = "logout" /\ last.gate = "pass" /\ now < last.verified.exp)
       => Cardinality({d \in blacklist : d.token = last.verified}) = 1

\* C29: every stored Building has 0 <= availableRooms <= totalRooms.
C29_AvailableWithinTotal ==
  \A b \in BuildingIds :
    buildings[b].stored
      => /\ 0 <= buildings[b].availableRooms
         /\ buildings[b].availableRooms <= buildings[b].totalRooms

\* C30: every stored Room whose status is 'rented' has a currentTenant.
C30_RentedHasTenant ==
  \A r \in RoomIds :
    (rooms[r].stored /\ rooms[r].status = "rented") => rooms[r].currentTenant \in Tenants

\* an update that names only currentTenant, as null, was sent for a room
\* that is rented
C30_Witness ==
  /\ last.op = "updateRoom"
  /\ last.body = [status |-> Absent, currentTenant |-> Undefined]
  /\ rooms[last.target].stored
  /\ rooms[last.target].status = "rented"

====
